---- MODULE Spec2Model ----
(***************************************************************************)
(* A model of inspect_urls.py: the URL set builder (read_static_urls,      *)
(* generate_dynamic_urls), the inspection client (inspect_url), the        *)
(* property lookup (find_verified_property), the remote sink construction  *)
(* (create_google_sheet) and the batch orchestrator with its Remote ->     *)
(* Local sink failover (main).                                             *)
(*                                                                         *)
(* Three specifications share the variables:                               *)
(*   Spec         one run of main(), step by step;                         *)
(*   SpecUrls     read_static_urls + generate_dynamic_urls on a wide set   *)
(*                of pages.txt contents and dates;                         *)
(*   SpecInspect  inspect_url on every shape of remote response.           *)
(***************************************************************************)
EXTENDS Integers, Sequences, FiniteSets, TLC

VARIABLES
    pc,             \* position of main(): see the actions below
    outcome,        \* how main() ended ("running" until it has)
    dry_run,        \* DRY_RUN environment flag, read at line 162
    creds,          \* what get_credentials returned, None before and when it raised
    today,          \* the wall-clock date of the run, [y, m, d]
    pages_file,     \* pages.txt: Absent, or its sequence of lines
    site_url,       \* the verified property, None until found
    all_urls,       \* static_urls + dynamic_urls
    printed,        \* the URLs printed by the dry run
    spreadsheet_id, \* None or the id returned by create_google_sheet
    csv_mode,       \* the Remote -> Local flag
    all_rows,       \* every row inspected so far in the run
    batch_rows,     \* the rows of the current batch
    i,              \* start offset of the current batch (0-based)
    j,              \* 1-based position in the current batch of the next URL
    now,            \* logical clock, advanced by time.sleep(1)
    errors,         \* inspections that raised so far (bounded by MaxInspectErrors)
    sheet,          \* the remote spreadsheet: NoSheet or its sequence of rows
    csv_file,       \* the local file: NoFile or its sequence of rows
    file_writes,    \* how many times the csv export (lines 241-244) has run
    site_list,      \* what sites().list().execute() did, NoListing before the call
    calls,          \* remote calls made so far, per kind
    insp_url,       \* SpecInspect: the URL handed to inspect_url
    insp_resp,      \* SpecInspect: the remote collaborator's answer
    insp_out        \* SpecInspect: what inspect_url did

vars == <<pc, outcome, dry_run, creds, today, pages_file, site_url, all_urls, printed,
          spreadsheet_id, csv_mode, all_rows, batch_rows, i, j, now, errors,
          sheet, csv_file, file_writes, site_list, calls, insp_url, insp_resp,
          insp_out>>

None == "None"
\* pages.txt, the remote spreadsheet and the local csv file: absent, or their content
Absent == [exists |-> FALSE, lines |-> <<>>]
File(lines) == [exists |-> TRUE, lines |-> lines]
NoSheet == [exists |-> FALSE, rows |-> <<>>]
Sheet(rows) == [exists |-> TRUE, rows |-> rows]
NoFile == [exists |-> FALSE, rows |-> <<>>]
Csv(rows) == [exists |-> TRUE, rows |-> rows]

(***************************************************************************)
(* Bounds of the model.                                                    *)
(***************************************************************************)
MaxLines == 2
MaxInspectErrors == 1

(***************************************************************************)
(* Configuration (lines 10-11, 38, 41, 212).                               *)
(***************************************************************************)
SITE_URL == "https://wordsolverx.com/"
games == <<"wordle", "quordle", "colordle", "semantle", "phoodle">>
NumDays == 7
batch_size == 5

(***************************************************************************)
(* datetime: today - timedelta(days=i) and strftime("%B-%d-%Y").lower().   *)
(***************************************************************************)
IsLeap(y) == (y % 4 = 0 /\ y % 100 # 0) \/ y % 400 = 0

DaysInMonth(y, m) ==
    IF m = 2 THEN (IF IsLeap(y) THEN 29 ELSE 28)
    ELSE IF m \in {4, 6, 9, 11} THEN 30 ELSE 31

PrevDay(dt) ==
    IF dt.d > 1 THEN [dt EXCEPT !.d = dt.d - 1]
    ELSE IF dt.m > 1 THEN [y |-> dt.y, m |-> dt.m - 1, d |-> DaysInMonth(dt.y, dt.m - 1)]
    ELSE [y |-> dt.y - 1, m |-> 12, d |-> 31]

RECURSIVE MinusDays(_, _)
MinusDays(dt, n) == IF n = 0 THEN dt ELSE MinusDays(PrevDay(dt), n - 1)

MonthB == <<"January", "February", "March", "April", "May", "June", "July",
            "August", "September", "October", "November", "December">>

\* str.lower() on the only cased part of the formatted date, the month name
Lower(s) ==
    CASE s = "January" -> "january" [] s = "February" -> "february"
      [] s = "March" -> "march" [] s = "April" -> "april" [] s = "May" -> "may"
      [] s = "June" -> "june" [] s = "July" -> "july" [] s = "August" -> "august"
      [] s = "September" -> "september" [] s = "October" -> "october"
      [] s = "November" -> "november" [] s = "December" -> "december"
      [] OTHER -> s

Digit == <<"0", "1", "2", "3", "4", "5", "6", "7", "8", "9">>
Dec(n) == Digit[n + 1]
\* %d: day of the month, zero-padded to two digits
Fmt_d(d) == Dec(d \div 10) \o Dec(d % 10)
\* %Y: the year, four digits for the years 1000..9999
Fmt_Y(y) == Dec(y \div 1000) \o Dec((y \div 100) % 10) \o Dec((y \div 10) % 10) \o Dec(y % 10)

date_str(dt) == Lower(MonthB[dt.m]) \o "-" \o Fmt_d(dt.d) \o "-" \o Fmt_Y(dt.y)

(***************************************************************************)
(* generate_dynamic_urls (lines 36-48): days outer, games inner.           *)
(***************************************************************************)
\* mutant: the two loops of lines 41 and 45 exchanged (games outer, days inner)
DynUrl_gamesOuter(tdy, k) ==
    LET g   == ((k - 1) \div NumDays) + 1
        day == (k - 1) % NumDays
    IN  SITE_URL \o games[g] \o "-answer-for-" \o date_str(MinusDays(tdy, day))

DynUrl(tdy, k) ==
    LET day == (k - 1) \div Len(games)
        g   == ((k - 1) % Len(games)) + 1
    IN  SITE_URL \o games[g] \o "-answer-for-" \o date_str(MinusDays(tdy, day))

generate_dynamic_urls(tdy) == [k \in 1..(NumDays * Len(games)) |-> DynUrl(tdy, k)]

(***************************************************************************)
(* read_static_urls (lines 50-57).  A line is a sequence of tokens, each   *)
(* a whitespace character or a run of non-whitespace text.                 *)
(***************************************************************************)
Whitespace == {" ", "\n"}

RECURSIVE lstrip(_)
lstrip(line) ==
    IF line # <<>> /\ Head(line) \in Whitespace THEN lstrip(Tail(line)) ELSE line

RECURSIVE rstrip(_)
rstrip(line) ==
    IF line # <<>> /\ line[Len(line)] \in Whitespace
    THEN rstrip(SubSeq(line, 1, Len(line) - 1)) ELSE line

RECURSIVE Join(_)
Join(tokens) == IF tokens = <<>> THEN "" ELSE Head(tokens) \o Join(Tail(tokens))

strip(line) == Join(rstrip(lstrip(line)))

RECURSIVE StripAll(_)
StripAll(lines) ==
    IF lines = <<>> THEN <<>> ELSE <<strip(Head(lines))>> \o StripAll(Tail(lines))

read_static_urls(file) ==
    IF ~file.exists THEN <<>>
    ELSE StripAll(SelectSeq(file.lines, LAMBDA line : strip(line) # ""))

BuildUrlSet(file, tdy) == read_static_urls(file) \o generate_dynamic_urls(tdy)

(***************************************************************************)
(* JSON values returned by the remote collaborators.  A dict is a function *)
(* from its present keys to JSON values; dict.get(key, default) is Get.    *)
(***************************************************************************)
JNull == [t |-> "null"]
JStr(s) == [t |-> "str", v |-> s]
JDict(f) == [t |-> "dict", v |-> f]
EmptyDict == JDict(<<>>)

Get(dct, key, default) == IF key \in DOMAIN dct THEN dct[key] ELSE default

Raise(msg) == [raised |-> TRUE, msg |-> msg]
Return(row) == [raised |-> FALSE, row |-> row]

StatusFields == <<"verdict", "coverageState", "robotsTxtState", "indexingState",
                  "lastCrawlTime", "pageFetchState", "googleCanonical", "userCanonical">>

\* the Python value a JSON value decodes to, as a cell of a row: a string, or None
Cell(v) == IF v.t = "str" THEN v.v ELSE None

(***************************************************************************)
(* inspect_url (lines 104-130).  resp is what .execute() does: it raises   *)
(* with a message, or returns a decoded JSON body.  ts is datetime.now().  *)
(***************************************************************************)
\* lines 106-127, the body of the try block; x.get on a non-dict raises AttributeError
inspect_try(url, resp, ts) ==
    IF resp.kind = "raise" THEN Raise(resp.msg)
    ELSE LET response == resp.body IN
      IF response.t # "dict" THEN Raise("AttributeError: no attribute 'get'")
      ELSE LET result == Get(response.v, "inspectionResult", EmptyDict) IN
        IF result.t # "dict" THEN Raise("AttributeError: no attribute 'get'")
        ELSE LET index_result == Get(result.v, "indexStatusResult", EmptyDict) IN
          IF index_result.t # "dict" THEN Raise("AttributeError: no attribute 'get'")
          ELSE Return(<<ts, url>> \o
                      [k \in 1..Len(StatusFields) |->
                          Cell(Get(index_result.v, StatusFields[k], JStr("N/A")))])

\* lines 128-130, the except clause: every Exception becomes an ERROR row
inspect_except(url, e, ts) ==
    Return(<<ts, url, "ERROR", e.msg, "", "", "", "", "", "">>)

\* mutant: no try/except around the inspection call
inspect_url_noExcept(url, resp, ts) == inspect_try(url, resp, ts)

\* mutant: the except clause catches the collaborator's errors only
inspect_url_narrowExcept(url, resp, ts) ==
    LET r == inspect_try(url, resp, ts)
    IN  IF r.raised /\ resp.kind = "raise" THEN inspect_except(url, r, ts) ELSE r

inspect_url(url, resp, ts) ==
    LET r == inspect_try(url, resp, ts)
    IN  IF r.raised THEN inspect_except(url, r, ts) ELSE r

(***************************************************************************)
(* Inputs.                                                                 *)
(***************************************************************************)
Date(y, m, d) == [y |-> y, m |-> m, d |-> d]

\* the spec's scenario date, a year boundary, a leap day and a non-leap February
Todays == {Date(2026, 1, 28), Date(2026, 1, 3), Date(2024, 3, 2), Date(2026, 3, 5)}

AboutLine == <<"https://wordsolverx.com/about", "\n">>
BlankLine == <<"\n">>
SpacesLine == <<" ", " ", "\n">>
\* a static line naming the first dynamic URL of 2026-01-28, padded with blanks
DupLine == <<" ", "https://wordsolverx.com/wordle-answer-for-january-28-2026", " ", "\n">>
\* a last line without newline, with inner whitespace
InnerLine == <<"https://wordsolverx.com/a", " ", "b">>
Lines == {AboutLine, BlankLine, SpacesLine, DupLine, InnerLine}

RECURSIVE SeqsUpTo(_, _)
SeqsUpTo(S, n) ==
    IF n = 0 THEN {<<>>}
    ELSE LET shorter == SeqsUpTo(S, n - 1)
         IN  shorter \cup {Append(q, x) : q \in {r \in shorter : Len(r) = n - 1}, x \in S}

PagesFiles == {Absent} \cup {File(ls) : ls \in SeqsUpTo(Lines, MaxLines)}

FieldValues == {"absent", "null", "value"}

\* an indexStatusResult dict: each of the 8 fields absent, null or a string
IndexDict(shape) ==
    JDict([f \in {StatusFields[k] : k \in {n \in 1..Len(StatusFields) : shape[n] # "absent"}} |->
              IF shape[CHOOSE k \in 1..Len(StatusFields) : StatusFields[k] = f] = "null"
              THEN JNull ELSE JStr("v-" \o f)])

Body(x) == [kind |-> "ok", body |-> x]
WithResult(x) == Body(JDict([k \in {"inspectionResult"} |-> x]))
WithIndex(x) == WithResult(JDict([k \in {"indexStatusResult"} |-> x]))

FullShape == [k \in 1..Len(StatusFields) |-> "value"]
NominalResponse == WithIndex(IndexDict(FullShape))
QuotaError == [kind |-> "raise", msg |-> "HttpError 429: Quota exceeded"]

Responses ==
    {QuotaError, [kind |-> "raise", msg |-> "TimeoutError"],
     Body(JNull), Body(EmptyDict), WithResult(JNull), WithResult(EmptyDict),
     WithIndex(JNull)}
    \cup {WithIndex(IndexDict(shape)) : shape \in [1..Len(StatusFields) -> FieldValues]}

InspectUrls == {"https://wordsolverx.com/about", "not a url"}

(***************************************************************************)
(* Initial values shared by the three specifications.                      *)
(***************************************************************************)
NoResponse == [kind |-> "none"]
NoResult == [raised |-> FALSE, row |-> <<>>]
NoListing == [kind |-> "none", sites |-> <<>>]
NoCalls == [list |-> 0, create |-> 0, header |-> 0, append |-> 0, inspect |-> 0]

InitRun ==
    /\ outcome = "running"
    /\ creds = None
    /\ site_url = None
    /\ all_urls = <<>>
    /\ printed = <<>>
    /\ spreadsheet_id = None
    /\ csv_mode = FALSE
    /\ all_rows = <<>>
    /\ batch_rows = <<>>
    /\ i = 0
    /\ j = 1
    /\ now = 0
    /\ errors = 0
    /\ sheet = NoSheet
    /\ csv_file = NoFile
    /\ file_writes = 0
    /\ site_list = NoListing
    /\ calls = NoCalls

InitNoInspect ==
    /\ insp_url = None
    /\ insp_resp = NoResponse
    /\ insp_out = NoResult

runVars == <<outcome, creds, site_url, printed, spreadsheet_id, csv_mode, all_rows,
             batch_rows, i, j, now, errors, sheet, csv_file, file_writes,
             site_list, calls>>
inspVars == <<insp_url, insp_resp, insp_out>>

(***************************************************************************)
(* SpecUrls: the URL set builder on every pages.txt of at most MaxLines    *)
(* lines and every date of Todays.                                         *)
(***************************************************************************)
InitUrls ==
    /\ pc = "urls"
    /\ dry_run \in BOOLEAN
    /\ today \in Todays
    /\ pages_file \in PagesFiles
    /\ InitRun
    /\ InitNoInspect

UrlsBuild ==
    /\ pc = "urls"
    /\ all_urls' = BuildUrlSet(pages_file, today)
    /\ pc' = "built"
    /\ UNCHANGED <<dry_run, today, pages_file, runVars, inspVars>>

NextUrls == UrlsBuild

SpecUrls == InitUrls /\ [][NextUrls]_vars

(***************************************************************************)
(* SpecInspect: inspect_url on every response shape.                       *)
(***************************************************************************)
InitInspect ==
    /\ pc = "call"
    /\ dry_run = FALSE
    /\ today = Date(2026, 1, 28)
    /\ pages_file = Absent
    /\ InitRun
    /\ insp_url \in InspectUrls
    /\ insp_resp \in Responses
    /\ insp_out = NoResult

InspectCall ==
    /\ pc = "call"
    /\ insp_out' = inspect_url(insp_url, insp_resp, now)
    /\ pc' = "returned"
    /\ UNCHANGED <<dry_run, today, pages_file, all_urls, runVars, insp_url, insp_resp>>

NextInspect == InspectCall

SpecInspect == InitInspect /\ [][NextInspect]_vars

(***************************************************************************)
(* get_credentials (lines 20-34).  env is GOOGLE_CREDENTIALS: unset (or    *)
(* empty), a service-account JSON, or text json.loads rejects; fileExists  *)
(* says whether credentials.json is there.                                 *)
(***************************************************************************)
CredEnvs == {"unset", "valid", "malformed"}

get_credentials(env, fileExists) ==
    IF env = "unset"
    THEN IF fileExists
         THEN [raised |-> FALSE, creds |-> "service-account"]
         ELSE [raised |-> TRUE, creds |-> None]
    ELSE IF env = "malformed"
         THEN [raised |-> TRUE, creds |-> None]
         ELSE [raised |-> FALSE, creds |-> "service-account"]

(***************************************************************************)
(* find_verified_property (lines 132-158).  A siteUrl is a sequence of     *)
(* tokens; "wordsolverx.com" in site_url is the domain being one of them.  *)
(***************************************************************************)
Domain == "wordsolverx.com"
Contains(tokens, word) == \E k \in 1..Len(tokens) : tokens[k] = word

Entry(tokens, permission) == [siteUrl |-> tokens, permissionLevel |-> permission]

\* mutant: the loop keeps going and the last qualifying entry wins
FirstMatch_last(sites) ==
    LET Q == {k \in 1..Len(sites) :
                 /\ Contains(sites[k].siteUrl, Domain)
                 /\ sites[k].permissionLevel # "siteRestrictedUser"}
    IN  IF Q = {} THEN None
        ELSE Join(sites[CHOOSE k \in Q : \A m \in Q : m <= k].siteUrl)

RECURSIVE FirstMatch(_)
FirstMatch(sites) ==
    IF sites = <<>> THEN None
    ELSE IF Contains(Head(sites).siteUrl, Domain)
            /\ Head(sites).permissionLevel # "siteRestrictedUser"
         THEN Join(Head(sites).siteUrl)
         ELSE FirstMatch(Tail(sites))

\* listing is what sites().list().execute() does: it raises, or returns the entries
find_verified_property(listing) ==
    IF listing.kind = "raise" THEN None ELSE FirstMatch(listing.sites)

UrlPrefix == <<"https://", "wordsolverx.com", "/">>
DomainProp == <<"sc-domain:", "wordsolverx.com">>
OtherSite == <<"https://", "example.com", "/">>

Listings ==
    {[kind |-> "raise", sites |-> <<>>],
     [kind |-> "ok", sites |-> <<>>],
     [kind |-> "ok", sites |-> <<Entry(DomainProp, "siteRestrictedUser")>>],
     [kind |-> "ok", sites |-> <<Entry(OtherSite, "siteOwner"),
                                 Entry(DomainProp, "siteRestrictedUser"),
                                 Entry(UrlPrefix, "siteFullUser"),
                                 Entry(DomainProp, "siteOwner")>>]}

(***************************************************************************)
(* create_google_sheet (lines 59-102).  createOk and headerOk say whether  *)
(* spreadsheets().create and the header values().append succeed.  A call   *)
(* that raises leaves the remote side as it was.                           *)
(***************************************************************************)
headers == <<"Inspection Date", "URL", "Verdict", "Coverage State",
             "Robots Txt State", "Indexing State", "Last Crawl Time",
             "Page Fetch State", "Google Canonical", "User Canonical">>

\* file.get('spreadsheetId') of a successful create: a non-empty id
NewSheetId == "sheet-1"

\* mutant: the sheet is returned without the header write of lines 83-88
create_google_sheet_noHeader(createOk, headerOk) ==
    IF ~createOk
    THEN [raised |-> TRUE, id |-> None, sheet |-> NoSheet, headerCalls |-> 0]
    ELSE [raised |-> FALSE, id |-> NewSheetId, sheet |-> Sheet(<<>>), headerCalls |-> 0]

\* mutant: the handler of lines 91-102 returns None instead of raising
create_google_sheet_returnsNone(createOk, headerOk) ==
    IF ~createOk
    THEN [raised |-> FALSE, id |-> None, sheet |-> NoSheet, headerCalls |-> 0]
    ELSE IF ~headerOk
    THEN [raised |-> FALSE, id |-> None, sheet |-> Sheet(<<>>), headerCalls |-> 1]
    ELSE [raised |-> FALSE, id |-> NewSheetId, sheet |-> Sheet(<<headers>>), headerCalls |-> 1]

create_google_sheet(createOk, headerOk) ==
    IF ~createOk
    THEN [raised |-> TRUE, id |-> None, sheet |-> NoSheet, headerCalls |-> 0]
    ELSE IF ~headerOk
    THEN [raised |-> TRUE, id |-> None, sheet |-> Sheet(<<>>), headerCalls |-> 1]
    ELSE [raised |-> FALSE, id |-> NewSheetId, sheet |-> Sheet(<<headers>>), headerCalls |-> 1]

(***************************************************************************)
(* main (lines 160-250), one action per step.                              *)
(***************************************************************************)
\* the runs of main(): three (date, pages.txt) pairs giving 35, 36 and 37 URLs
MainInputs ==
    {<<Date(2026, 1, 28), Absent>>,
     <<Date(2024, 3, 2), File(<<AboutLine>>)>>,
     <<Date(2026, 1, 28), File(<<DupLine, BlankLine, AboutLine>>)>>}

\* what the inspection collaborator answers during a run
MainResponses == {NominalResponse, QuotaError}

Init ==
    /\ pc = "start"
    /\ dry_run \in BOOLEAN
    /\ \E inp \in MainInputs : today = inp[1] /\ pages_file = inp[2]
    /\ InitRun
    /\ InitNoInspect

Min(a, b) == IF a < b THEN a ELSE b

\* mutant: a batch of twice the size
Batch_wide(urls, k) == SubSeq(urls, k + 1, Min(k + 2 * batch_size, Len(urls)))

\* line 214: batch = all_urls[i:i+batch_size]
Batch(urls, k) == SubSeq(urls, k + 1, Min(k + batch_size, Len(urls)))

\* mutant: line 223 without its csv_mode test
RemoteActive_retries(csv, id) == id # None

\* line 223: if not csv_mode and spreadsheet_id
RemoteActive(csv, id) == ~csv /\ id # None

\* what a failed local write leaves: no file (open failed), an empty file, or
\* the content short of its last row
PartialWrites(content) ==
    {NoFile, Csv(<<>>), Csv(SubSeq(content, 1, Len(content) - 1))}

Bump(kind) == [calls EXCEPT ![kind] = @ + 1]

\* mutant: the handler re-raises, as create_google_sheet's does at line 102
Fatal_reraises == pc' = "done" /\ outcome' = "raised"

\* lines 249-250: every exception ends the run with "Fatal Error"
Fatal == pc' = "done" /\ outcome' = "fatal"

\* lines 165-167: get_credentials, then the two build() calls, which make no
\* remote call
GetCredentials ==
    /\ pc = "start"
    /\ \E env \in CredEnvs, fileExists \in BOOLEAN :
         LET r == get_credentials(env, fileExists) IN
         IF r.raised
         THEN Fatal /\ creds' = creds
         ELSE pc' = "find" /\ outcome' = outcome /\ creds' = r.creds
    /\ UNCHANGED <<dry_run, today, pages_file, all_urls, site_url, printed,
                   spreadsheet_id, csv_mode, all_rows, batch_rows, i, j, now,
                   errors, sheet, csv_file, calls, file_writes, site_list, inspVars>>

\* mutant: lines 172-174 without the return
AfterLookup_noReturn(found) == pc' = "urls" /\ outcome' = outcome

\* lines 172-175: if not site_url: return
AfterLookup(found) ==
    IF found = None
    THEN pc' = "done" /\ outcome' = "aborted"
    ELSE pc' = "urls" /\ outcome' = outcome

\* lines 171-175, the listing call answering with one of `listings`
FindPropertyFrom(listings) ==
    /\ pc = "find"
    /\ \E listing \in listings :
         LET found == find_verified_property(listing) IN
         /\ site_list' = listing
         /\ site_url' = found
         /\ AfterLookup(found)
    /\ calls' = Bump("list")
    /\ UNCHANGED <<dry_run, today, pages_file, all_urls, printed, spreadsheet_id,
                   csv_mode, all_rows, batch_rows, i, j, now, errors, sheet,
                   csv_file, file_writes, creds, inspVars>>

FindProperty == FindPropertyFrom(Listings)

\* lines 178-185
BuildUrls ==
    /\ pc = "urls"
    /\ all_urls' = BuildUrlSet(pages_file, today)
    /\ IF all_urls' = <<>>
       THEN pc' = "done" /\ outcome' = "no_urls"
       ELSE pc' = "mode" /\ outcome' = outcome
    /\ UNCHANGED <<dry_run, creds, today, pages_file, site_url, printed, spreadsheet_id,
                   csv_mode, all_rows, batch_rows, i, j, now, errors, sheet,
                   csv_file, calls, file_writes, site_list, inspVars>>

\* mutant: the listing loops over dynamic_urls instead of all_urls
dry_run_listing_dynamicOnly(urls) == generate_dynamic_urls(today)

\* lines 189-190: for url in all_urls: print
dry_run_listing(urls) == urls

\* lines 187-192
DryRun ==
    /\ pc = "mode"
    /\ dry_run
    /\ printed' = dry_run_listing(all_urls)
    /\ pc' = "done"
    /\ outcome' = "dry_run"
    /\ UNCHANGED <<dry_run, creds, today, pages_file, all_urls, site_url, spreadsheet_id,
                   csv_mode, all_rows, batch_rows, i, j, now, errors, sheet,
                   csv_file, calls, file_writes, site_list, inspVars>>

\* lines 194-213: the sink is built, then the loop starts on the first batch
CreateSheet ==
    /\ pc = "mode"
    /\ ~dry_run
    /\ \E createOk, headerOk \in BOOLEAN :
         LET r == create_google_sheet(createOk, headerOk) IN
         /\ spreadsheet_id' = r.id
         /\ csv_mode' = r.raised
         /\ sheet' = r.sheet
         /\ calls' = [calls EXCEPT !.create = @ + 1, !.header = @ + r.headerCalls]
    /\ all_rows' = <<>>
    /\ batch_rows' = <<>>
    /\ i' = 0
    /\ j' = 1
    /\ pc' = "inspect"
    /\ UNCHANGED <<dry_run, creds, today, pages_file, all_urls, site_url, printed, outcome,
                   now, errors, csv_file, file_writes, site_list, inspVars>>

\* lines 216-220: one inspection, its row added to both accumulators
Inspect ==
    /\ pc = "inspect"
    /\ \E resp \in MainResponses :
         LET r == inspect_url(all_urls[i + j], resp, now) IN
         /\ resp.kind = "raise" => errors < MaxInspectErrors
         /\ errors' = IF resp.kind = "raise" THEN errors + 1 ELSE errors
         /\ IF r.raised
            THEN /\ Fatal
                 /\ UNCHANGED <<batch_rows, all_rows>>
            ELSE /\ batch_rows' = Append(batch_rows, r.row)
                 /\ all_rows' = Append(all_rows, r.row)
                 /\ pc' = "sleep"
                 /\ outcome' = outcome
    /\ calls' = Bump("inspect")
    /\ UNCHANGED <<dry_run, creds, today, pages_file, all_urls, site_url, printed,
                   spreadsheet_id, csv_mode, i, j, now, sheet, csv_file, file_writes, site_list, inspVars>>

\* mutant: the sleep is skipped after an inspection that gave an ERROR row
time_sleep_notAfterError(t) ==
    IF all_rows[Len(all_rows)][3] = "ERROR" THEN t ELSE t + 1

\* line 221: time.sleep(1), one tick of the clock
time_sleep(t) == t + 1

\* line 221, then the next URL of the batch or the end of the inner loop
Sleep ==
    /\ pc = "sleep"
    /\ now' = time_sleep(now)
    /\ j' = j + 1
    /\ pc' = IF j < Len(Batch(all_urls, i)) THEN "inspect" ELSE "append"
    /\ UNCHANGED <<dry_run, creds, today, pages_file, all_urls, site_url, printed, outcome,
                   spreadsheet_id, csv_mode, all_rows, batch_rows, i, errors,
                   sheet, csv_file, calls, file_writes, site_list, inspVars>>

\* mutant: the loop index is not advanced
NextBatch_noAdvance ==
    /\ i' = i
    /\ j' = 1
    /\ pc' = "inspect"
    /\ batch_rows' = <<>>

\* line 213: the next batch, or the end of the loop
NextBatch ==
    /\ i' = i + batch_size
    /\ j' = 1
    /\ IF i + batch_size < Len(all_urls)
       THEN pc' = "inspect" /\ batch_rows' = <<>>
       ELSE pc' = "export" /\ batch_rows' = batch_rows

\* mutant: the rows are inserted at the range's anchor, row 2, above the earlier rows
values_append_atA2(rows, batch) == <<Head(rows)>> \o batch \o Tail(rows)

\* mutant: the batch is written in place at the range, over the earlier rows
values_append_overwrites(rows, batch) == SubSeq(rows, 1, 1) \o batch

\* lines 225-230: values().append adds the rows after the last row of the table
values_append(rows, batch) == rows \o batch

\* lines 223-231: the batch is appended to the spreadsheet
AppendOk ==
    /\ pc = "append"
    /\ RemoteActive(csv_mode, spreadsheet_id)
    /\ sheet' = Sheet(values_append(sheet.rows, batch_rows))
    /\ calls' = Bump("append")
    /\ NextBatch
    /\ UNCHANGED <<dry_run, creds, today, pages_file, all_urls, site_url, printed, outcome,
                   spreadsheet_id, csv_mode, all_rows, now, errors, csv_file,
                   file_writes, site_list, inspVars>>

\* lines 232-234: the append raises
AppendFails ==
    /\ pc = "append"
    /\ RemoteActive(csv_mode, spreadsheet_id)
    /\ csv_mode' = TRUE
    /\ calls' = Bump("append")
    /\ NextBatch
    /\ UNCHANGED <<dry_run, creds, today, pages_file, all_urls, site_url, printed, outcome,
                   spreadsheet_id, all_rows, now, errors, sheet, csv_file, file_writes, site_list, inspVars>>

\* line 223 false: nothing is sent
AppendSkipped ==
    /\ pc = "append"
    /\ ~RemoteActive(csv_mode, spreadsheet_id)
    /\ NextBatch
    /\ UNCHANGED <<dry_run, creds, today, pages_file, all_urls, site_url, printed, outcome,
                   spreadsheet_id, csv_mode, all_rows, now, errors, sheet, csv_file,
                   calls, file_writes, site_list, inspVars>>

\* mutant: the export is not conditional on csv_mode
LocalAtEnd_always(csv) == TRUE

\* line 237: if csv_mode
LocalAtEnd(csv) == csv

\* mutant: only the rows not yet in the spreadsheet are written
csv_content_remaining(rows) ==
    <<headers>> \o SubSeq(rows, IF Len(sheet.rows) > 1 THEN Len(sheet.rows) ELSE 1, Len(rows))

\* lines 237-245: the one write of the local file
csv_content(rows) == <<headers>> \o rows

ExportCsv ==
    /\ pc = "export"
    /\ LocalAtEnd(csv_mode)
    /\ csv_file' = Csv(csv_content(all_rows))
    /\ file_writes' = file_writes + 1
    /\ pc' = "done"
    /\ outcome' = "success_csv"
    /\ UNCHANGED <<dry_run, creds, today, pages_file, all_urls, site_url, printed,
                   spreadsheet_id, csv_mode, all_rows, batch_rows, i, j, now,
                   errors, sheet, calls, site_list, inspVars>>

\* lines 241-244 raise: caught at line 249
ExportCsvFails ==
    /\ pc = "export"
    /\ LocalAtEnd(csv_mode)
    /\ csv_file' \in PartialWrites(csv_content(all_rows))
    /\ file_writes' = file_writes + 1
    /\ Fatal
    /\ UNCHANGED <<dry_run, creds, today, pages_file, all_urls, site_url, printed,
                   spreadsheet_id, csv_mode, all_rows, batch_rows, i, j, now,
                   errors, sheet, calls, site_list, inspVars>>

\* lines 246-247
FinishSheets ==
    /\ pc = "export"
    /\ ~LocalAtEnd(csv_mode)
    /\ pc' = "done"
    /\ outcome' = "success_sheets"
    /\ UNCHANGED <<dry_run, creds, today, pages_file, all_urls, site_url, printed,
                   spreadsheet_id, csv_mode, all_rows, batch_rows, i, j, now,
                   errors, sheet, csv_file, calls, file_writes, site_list, inspVars>>

Next ==
    \/ GetCredentials
    \/ FindProperty
    \/ BuildUrls
    \/ DryRun
    \/ CreateSheet
    \/ Inspect
    \/ Sleep
    \/ AppendOk
    \/ AppendFails
    \/ AppendSkipped
    \/ ExportCsv
    \/ ExportCsvFails
    \/ FinishSheets

Spec == Init /\ [][Next]_vars

(***************************************************************************)
(* SpecLive: the runs of main() on a URL list that is a whole number of    *)
(* batches (35) and on one that is not (37), under fairness: main is one   *)
(* sequential thread and every call it makes returns or raises, so while   *)
(* a step is enabled, one is taken.                                        *)
(***************************************************************************)
LiveInputs ==
    {<<Date(2026, 1, 28), Absent>>,
     <<Date(2026, 1, 28), File(<<DupLine, BlankLine, AboutLine>>)>>}

InitLive ==
    /\ pc = "start"
    /\ dry_run \in BOOLEAN
    /\ \E inp \in LiveInputs : today = inp[1] /\ pages_file = inp[2]
    /\ InitRun
    /\ InitNoInspect

SpecLive == InitLive /\ [][Next]_vars /\ WF_vars(Next)

(***************************************************************************)
(* SpecProps: the property lookup of lines 169-175 on every listing of at  *)
(* most MaxSites entries.                                                  *)
(***************************************************************************)
MaxSites == 3

\* the permissionLevel values of the Search Console API
Permissions == {"siteOwner", "siteFullUser", "siteRestrictedUser", "siteUnverifiedUser"}

SiteUrls == {UrlPrefix, DomainProp, OtherSite}

SiteEntries == {Entry(u, p) : u \in SiteUrls, p \in Permissions}

PropListings ==
    {[kind |-> "raise", sites |-> <<>>]}
    \cup {[kind |-> "ok", sites |-> q] : q \in SeqsUpTo(SiteEntries, MaxSites)}

\* main after lines 165-167 succeeded
InitProps ==
    /\ pc = "find"
    /\ dry_run = FALSE
    /\ today = Date(2026, 1, 28)
    /\ pages_file = Absent
    /\ outcome = "running"
    /\ creds = "service-account"
    /\ site_url = None
    /\ all_urls = <<>>
    /\ printed = <<>>
    /\ spreadsheet_id = None
    /\ csv_mode = FALSE
    /\ all_rows = <<>>
    /\ batch_rows = <<>>
    /\ i = 0
    /\ j = 1
    /\ now = 0
    /\ errors = 0
    /\ sheet = NoSheet
    /\ csv_file = NoFile
    /\ file_writes = 0
    /\ site_list = NoListing
    /\ calls = NoCalls
    /\ InitNoInspect

NextProps == FindPropertyFrom(PropListings)

SpecProps == InitProps /\ [][NextProps]_vars

(***************************************************************************)
(* Properties.                                                             *)
(***************************************************************************)
\* the url column of a sequence of rows
RowUrls(rows) == [k \in 1..Len(rows) |-> rows[k][2]]

\* rows is the header followed by one row per element of urls, in order
HeaderThenRowsOf(rows, urls) ==
    /\ Len(rows) = Len(urls) + 1
    /\ rows[1] = headers
    /\ \A k \in 1..Len(urls) : rows[k + 1][2] = urls[k]

\* rows is the header followed by rows for a prefix of urls, in order
HeaderThenPrefixOf(rows, urls) ==
    rows # <<>> =>
        /\ rows[1] = headers
        /\ Len(rows) <= Len(urls) + 1
        /\ \A k \in 2..Len(rows) : rows[k][2] = urls[k - 1]

\* an append of the run has raised: the sheet was created, yet the run is Local
AppendFailed == spreadsheet_id # None /\ csv_mode

\* C1 (failover completeness): when a remote append failed on some batch and the
\* run has written its local file, that file is the header row followed by
\* exactly one row per URL of the list, in list order (batches 1..k and every
\* later batch, nothing twice, nothing missing), the rows sent to the sheet
\* before the failure being the same rows.
C1_FailoverCompleteness ==
    (AppendFailed /\ outcome = "success_csv") =>
        /\ csv_file.exists
        /\ HeaderThenRowsOf(csv_file.rows, all_urls)
        /\ csv_file.rows = <<headers>> \o all_rows
        /\ \A k \in 1..Len(sheet.rows) : csv_file.rows[k] = sheet.rows[k]

\* batch 1 (5 rows) reached the sheet, the append of batch 2 failed, and the
\* file was written
C1_Witness ==
    /\ AppendFailed
    /\ outcome = "success_csv"
    /\ Len(sheet.rows) = 1 + batch_size
    /\ calls.append = 2
    /\ Len(csv_file.rows) > 1 + 2 * batch_size

\* C2 (order preservation): at every point of every run the rows inspected, the
\* rows in the remote sheet and the rows in the local file follow the order of
\* the URL list, rows are in inspection order, and a run that reports success
\* has every URL's row in the sink it names.
C2_OrderPreservation ==
    /\ Len(all_rows) <= Len(all_urls)
    /\ \A k \in 1..Len(all_rows) : all_rows[k][2] = all_urls[k]
    /\ \A k \in 2..Len(all_rows) : all_rows[k - 1][1] < all_rows[k][1]
    /\ HeaderThenPrefixOf(sheet.rows, all_urls)
    /\ HeaderThenPrefixOf(csv_file.rows, all_urls)
    /\ \A k \in 2..Len(sheet.rows) : sheet.rows[k] = all_rows[k - 1]
    /\ \A k \in 2..Len(csv_file.rows) : csv_file.rows[k] = all_rows[k - 1]
    /\ outcome = "success_csv" => HeaderThenRowsOf(csv_file.rows, all_urls)
    /\ outcome = "success_sheets" => HeaderThenRowsOf(sheet.rows, all_urls)

\* a run with a static URL, an inspection error and a failover after two batches
C2_Witness ==
    /\ outcome = "success_csv"
    /\ Len(sheet.rows) = 1 + 2 * batch_size
    /\ errors = 1
    /\ Len(all_urls) > NumDays * Len(games)
    /\ HeaderThenRowsOf(csv_file.rows, all_urls)

\* C3 (one-way failover): a step taken in Local mode leaves the run in Local
\* mode and makes no remote sheet call: no create, no header write, no append,
\* and the sheet is as it was.
C3_OneWayFailover ==
    [][csv_mode =>
         /\ csv_mode'
         /\ calls'.append = calls.append
         /\ calls'.create = calls.create
         /\ calls'.header = calls.header
         /\ sheet' = sheet]_vars

\* the append of batch 1 failed and the run went through all later batches
C3_Witness ==
    /\ AppendFailed
    /\ calls.append = 1
    /\ sheet.rows = <<headers>>
    /\ pc = "done"
    /\ Len(all_rows) = Len(all_urls)

\* the remote inspection call itself raised
CallRaises(resp) == resp.kind = "raise"

\* the call returned a body that lines 111-113 cannot read: the body, its
\* inspectionResult or its indexStatusResult is present and is not a dict
ReadRaises(resp) ==
    /\ resp.kind = "ok"
    /\ \/ resp.body.t # "dict"
       \/ /\ "inspectionResult" \in DOMAIN resp.body.v
          /\ LET result == resp.body.v["inspectionResult"] IN
             \/ result.t # "dict"
             \/ /\ "indexStatusResult" \in DOMAIN result.v
                /\ result.v["indexStatusResult"].t # "dict"

\* C4 (inspect_url never raises): whatever the remote call does, inspect_url
\* returns a row of 10 fields; when the call raised or its response could not
\* be read, the row is [timestamp, url, "ERROR", message, "" x 6], the message
\* being the text of the error.
C4_InspectNeverRaises ==
    pc = "returned" =>
        /\ ~insp_out.raised
        /\ Len(insp_out.row) = 10
        /\ insp_out.row[1] = now
        /\ insp_out.row[2] = insp_url
        /\ (CallRaises(insp_resp) \/ ReadRaises(insp_resp)) =>
              /\ insp_out.row[3] = "ERROR"
              /\ CallRaises(insp_resp) => insp_out.row[4] = insp_resp.msg
              /\ insp_out.row[4] \notin {"", "N/A", None}
              /\ \A k \in 5..10 : insp_out.row[k] = ""

\* a response whose indexStatusResult is null: reading it fails, an ERROR row returns
C4_Witness ==
    /\ pc = "returned"
    /\ insp_resp = WithIndex(JNull)
    /\ ReadRaises(insp_resp)
    /\ insp_out.row[3] = "ERROR"
    /\ insp_out.row[10] = ""

\* the indexStatusResult dict of a response that was read without error
IndexOf(resp) ==
    LET result == Get(resp.body.v, "inspectionResult", EmptyDict)
    IN  Get(result.v, "indexStatusResult", EmptyDict).v

\* C5 (row completeness): for every remote response inspect_url returns a row
\* of exactly 10 fields none of which is null, and every status field that a
\* successfully read response does not give as a string is "N/A".
C5_RowCompleteness ==
    pc = "returned" =>
        /\ ~insp_out.raised
        /\ Len(insp_out.row) = 10
        /\ \A k \in 2..10 : insp_out.row[k] # None
        /\ ~(CallRaises(insp_resp) \/ ReadRaises(insp_resp)) =>
              \A k \in 1..Len(StatusFields) :
                  StatusFields[k] \notin DOMAIN IndexOf(insp_resp)
                      => insp_out.row[k + 2] = "N/A"

\* C6 (dry run makes no remote call): in a run with DRY_RUN = true no remote
\* call of any kind has been made, at any point of the run.
C6_DryRunNoRemoteCalls == dry_run => calls = NoCalls

\* C7 (idempotent dry run): a dry run creates and mutates no sink (no
\* spreadsheet, no header or row append, no local file), and what it prints is
\* the URL set built from the date and pages.txt, which is also the sequence a
\* real run has inspected when its loop ends.
C7_DryRunFrame ==
    /\ dry_run =>
          /\ ~sheet.exists
          /\ ~csv_file.exists
          /\ spreadsheet_id = None
          /\ calls.create = 0 /\ calls.header = 0 /\ calls.append = 0
          /\ calls.inspect = 0
    /\ outcome = "dry_run" =>
          /\ dry_run
          /\ printed = all_urls
          /\ printed = BuildUrlSet(pages_file, today)
    /\ (~dry_run /\ pc = "export") =>
          /\ printed = <<>>
          /\ RowUrls(all_rows) = all_urls
          /\ RowUrls(all_rows) = BuildUrlSet(pages_file, today)

\* a finished dry run that printed two static and 35 dynamic URLs
C7_Witness ==
    /\ outcome = "dry_run"
    /\ Len(printed) = 2 + NumDays * Len(games)
    /\ printed[1] = printed[3]

\* create_google_sheet raised: the create call was made and no id came back
SinkCreationFailed == calls.create > 0 /\ spreadsheet_id = None

\* C8 (creation failure starts Local): when the spreadsheet create call or the
\* header write raises, the run is in Local mode from batch 1, no batch is
\* appended remotely, the local file gets every row, and no remote artifact
\* exists.
C8_CreationFailureStartsLocal ==
    SinkCreationFailed =>
        /\ csv_mode
        /\ calls.append = 0
        /\ outcome = "success_csv" => HeaderThenRowsOf(csv_file.rows, all_urls)
        /\ ~sheet.exists

\* the three startup failures
CredentialsFailed == pc # "start" /\ creds = None
NoPropertyMatch == calls.list > 0 /\ site_url = None
EmptyUrlSet == pc \notin {"start", "find", "urls"} /\ site_url # None /\ all_urls = <<>>

\* C9 (startup failure): when the credentials cannot be obtained, no verified
\* property matches or the URL set is empty, the run has ended, no step is
\* left to take, no inspection call was made and no sink was touched.
C9_StartupFailure ==
    (CredentialsFailed \/ NoPropertyMatch \/ EmptyUrlSet) =>
        /\ pc = "done"
        /\ outcome \in {"fatal", "aborted", "no_urls"}
        /\ ~ENABLED Next
        /\ calls.inspect = 0
        /\ calls.create = 0 /\ calls.header = 0 /\ calls.append = 0
        /\ ~sheet.exists
        /\ ~csv_file.exists
        /\ all_rows = <<>>

\* the listing was made with valid credentials and no entry qualified
C9_Witness ==
    /\ NoPropertyMatch
    /\ creds # None
    /\ calls.list = 1
    /\ outcome = "aborted"

\* the proleptic Gregorian day number of a date, by the closed formula
CumDays == <<0, 31, 59, 90, 120, 151, 181, 212, 243, 273, 304, 334>>
LeapYear(y) == y % 4 = 0 /\ (y % 100 # 0 \/ y % 400 = 0)
Ordinal(dt) ==
    365 * (dt.y - 1) + ((dt.y - 1) \div 4) - ((dt.y - 1) \div 100) + ((dt.y - 1) \div 400)
    + CumDays[dt.m] + (IF dt.m > 2 /\ LeapYear(dt.y) THEN 1 ELSE 0) + dt.d

\* the calendar date n days before tdy: the date whose day number is n less
DayBefore(tdy, n) ==
    CHOOSE c \in {Date(y, m, d) : y \in {tdy.y - 1, tdy.y}, m \in 1..12, d \in 1..31} :
        /\ Ordinal(c) = Ordinal(tdy) - n
        /\ c.d <= (IF c.m = 12 THEN 31 ELSE CumDays[c.m + 1] - CumDays[c.m])
                  + (IF c.m = 2 /\ LeapYear(c.y) THEN 1 ELSE 0)

MonthWords == <<"january", "february", "march", "april", "may", "june", "july",
                "august", "september", "october", "november", "december">>
DateWord(c) ==
    MonthWords[c.m] \o "-" \o (IF c.d < 10 THEN "0" \o Dec(c.d) ELSE Dec(c.d \div 10) \o Dec(c.d % 10))
    \o "-" \o Dec(c.y \div 1000) \o Dec((c.y % 1000) \div 100) \o Dec((c.y % 100) \div 10) \o Dec(c.y % 10)

\* the non-blank lines of pages.txt, in file order, each without its leading
\* and trailing whitespace
NonBlank(line) == \E k \in 1..Len(line) : line[k] \notin Whitespace
Trimmed(line) ==
    LET text == {k \in 1..Len(line) : line[k] \notin Whitespace}
        lo == CHOOSE k \in text : \A m \in text : k <= m
        hi == CHOOSE k \in text : \A m \in text : k >= m
    IN  Join(SubSeq(line, lo, hi))
StaticUrlsOf(file) ==
    IF ~file.exists THEN <<>>
    ELSE LET kept == SelectSeq(file.lines, NonBlank)
         IN  [k \in 1..Len(kept) |-> Trimmed(kept[k])]

\* C10 (URL set): the URL set is the static URLs (the non-blank lines of
\* pages.txt, stripped, in file order, duplicates kept, none when the file is
\* absent) followed by exactly 5 x 7 = 35 dynamic URLs, one per (day, game)
\* for day = today - d, d in 0..6, most recent day first and, within a day, in
\* the fixed game order; a static URL equal to a dynamic one stays in the set
\* twice.
C10_UrlSet ==
    pc = "built" =>
        LET st == StaticUrlsOf(pages_file)
            n == Len(st)
        IN  /\ Len(all_urls) = n + 35
            /\ Len(games) = 5
            /\ ~pages_file.exists => n = 0
            /\ \A k \in 1..n : all_urls[k] = st[k]
            /\ \A d \in 0..6 : \A g \in 1..5 :
                  all_urls[n + 5 * d + g]
                      = "https://wordsolverx.com/" \o games[g] \o "-answer-for-"
                        \o DateWord(DayBefore(today, d))
            /\ (today = Date(2026, 1, 28) /\ pages_file = File(<<AboutLine>>)) =>
                  /\ Len(all_urls) = 36
                  /\ all_urls[1] = "https://wordsolverx.com/about"
                  /\ all_urls[2] = "https://wordsolverx.com/wordle-answer-for-january-28-2026"
                  /\ all_urls[3] = "https://wordsolverx.com/quordle-answer-for-january-28-2026"
                  /\ all_urls[7] = "https://wordsolverx.com/wordle-answer-for-january-27-2026"
                  /\ all_urls[36] = "https://wordsolverx.com/phoodle-answer-for-january-22-2026"

\* pages.txt names the first dynamic URL of the day: it is in the set twice
C10_Witness ==
    /\ pc = "built"
    /\ today = Date(2026, 1, 28)
    /\ pages_file = File(<<DupLine, AboutLine>>)
    /\ Len(all_urls) = 37
    /\ all_urls[1] = all_urls[3]
    /\ all_urls[2] = "https://wordsolverx.com/about"

\* C11 (one point of local I/O): the csv export runs at most once per run,
\* only after every URL has been inspected and only in a run that is Local at
\* its end; when it succeeds the file is the header row followed by all rows
\* of the run, otherwise the run is fatal.  While the run is Local its loop
\* never ends the run and every row of the batch is in the rows to be written;
\* a run that ends Remote has written no file.
C11_SingleLocalWrite ==
    /\ file_writes <= 1
    /\ file_writes = 0 => ~csv_file.exists
    /\ file_writes = 1 =>
          /\ pc = "done"
          /\ csv_mode
          /\ Len(all_rows) = Len(all_urls)
          /\ calls.inspect = Len(all_urls)
          /\ \/ outcome = "success_csv" /\ csv_file = Csv(<<headers>> \o all_rows)
             \/ outcome = "fatal"
    /\ outcome = "success_csv" => file_writes = 1
    /\ outcome = "success_sheets" => file_writes = 0 /\ ~csv_mode
    /\ (csv_mode /\ pc \in {"inspect", "sleep", "append", "export"}) =>
          /\ outcome = "running"
          /\ Len(all_rows) = calls.inspect
          /\ pc \in {"sleep", "append"} =>
                SubSeq(all_rows, i + 1, Len(all_rows)) = batch_rows

\* a run that was Local from batch 1 and wrote its file at the end
C11_Witness ==
    /\ outcome = "success_csv"
    /\ spreadsheet_id = None
    /\ ~sheet.exists
    /\ file_writes = 1
    /\ Len(csv_file.rows) = Len(all_urls) + 1

\* the ways main() returns to its caller
NormalReturns == {"fatal", "aborted", "no_urls", "dry_run", "success_csv", "success_sheets"}

\* the csv export raised: it ran and the file is not the full content
FileWriteFailed == file_writes > 0 /\ csv_file # Csv(<<headers>> \o all_rows)

\* C12 (main returns normally): at every failure point (credentials, property
\* listing, spreadsheet creation, inspection, remote append, local file write)
\* the run either goes on or has returned normally; no error leaves main; a
\* failed file write ends the run as its reported fatal error with nothing
\* attempted after it.
C12_MainReturnsNormally ==
    /\ outcome \in NormalReturns \cup {"running"}
    /\ (pc = "done") <=> (outcome \in NormalReturns)
    /\ pc # "done" => ENABLED Next
    /\ CredentialsFailed => outcome = "fatal"
    /\ site_list.kind = "raise" => outcome = "aborted"
    /\ SinkCreationFailed => csv_mode /\ outcome \in {"running", "success_csv", "fatal"}
    /\ (errors > 0 \/ AppendFailed) => outcome \in {"running", "success_csv", "success_sheets", "fatal"}
    /\ outcome = "fatal" => CredentialsFailed \/ FileWriteFailed
    /\ FileWriteFailed =>
          /\ pc = "done"
          /\ outcome = "fatal"
          /\ file_writes = 1
          /\ ~ENABLED Next

\* after a failover the export raised, leaving an empty file; the run is over
C12_Witness ==
    /\ FileWriteFailed
    /\ AppendFailed
    /\ csv_file = Csv(<<>>)
    /\ outcome = "fatal"
    /\ pc = "done"

\* the batch loop has been entered (line 213)
LoopStarted == calls.create > 0

\* C13 (failures never end the loop or skip a URL): once the loop has started,
\* whatever inspections or appends failed, the k-th inspection call is for the
\* k-th URL of the list, one call per step, the run does not end before every
\* URL has been inspected, and at the end of the loop each URL has been
\* inspected exactly once.
C13_EveryUrlInspectedOnce ==
    LoopStarted =>
        /\ calls.inspect = Len(all_rows)
        /\ calls.inspect <= Len(all_urls)
        /\ \A k \in 1..Len(all_rows) : all_rows[k][2] = all_urls[k]
        /\ pc = "inspect" => calls.inspect = i + j - 1
        /\ pc = "sleep" => calls.inspect = i + j
        /\ pc \in {"inspect", "sleep", "append"} => outcome = "running"
        /\ pc \in {"export", "done"} => calls.inspect = Len(all_urls)

\* the loop has ended after an inspection error and a failed append
C13_Witness ==
    /\ pc = "export"
    /\ errors = 1
    /\ AppendFailed
    /\ calls.append = 3
    /\ calls.inspect = Len(all_urls)
    /\ \E k \in 1..batch_size : all_rows[k][3] = "ERROR"

\* C14 (per-URL unconditional sleep): the clock, which only time.sleep(1)
\* advances, counts the sleeps.  Right after an inspection call one sleep is
\* due; at every other point of the run there have been exactly as many
\* sleeps as inspection calls, so each call, whatever row it returned and
\* wherever it stands in its batch, is followed by one sleep before the next
\* call and before the batch's append; the k-th call is made after k - 1 sleeps.
C14_SleepAfterEveryInspection ==
    /\ pc = "sleep" => now = calls.inspect - 1
    /\ pc # "sleep" => now = calls.inspect
    /\ \A k \in 1..Len(all_rows) : all_rows[k][1] = k - 1

\* the last URL of the run gave an ERROR row and was slept on before the append
C14_Witness ==
    /\ pc = "append"
    /\ Len(all_rows) = Len(all_urls)
    /\ all_rows[Len(all_rows)][3] = "ERROR"
    /\ now = Len(all_urls)

\* the sheet was created and no append has failed
NoSinkFailure == spreadsheet_id # None /\ ~csv_mode

\* C15 (remote writes of a run without sink failure): the sheet was created
\* once and its first write was the header row; after that there is exactly
\* one write per finished batch, the batches being the consecutive slices of at
\* most 5 URLs, so the sheet holds the header and the rows of the first
\* 5 x appends URLs (all of them once the last, possibly shorter, batch is in);
\* a run that ends this way made ceil(n/5) appends and its sheet is the header
\* followed by one row per URL.
C15_RemoteWrites ==
    NoSinkFailure =>
        /\ calls.create = 1
        /\ calls.header = 1
        /\ sheet.exists
        /\ sheet.rows[1] = headers
        /\ Len(sheet.rows) = 1 + Min(batch_size * calls.append, Len(all_urls))
        /\ \A k \in 2..Len(sheet.rows) : sheet.rows[k] = all_rows[k - 1]
        /\ pc \in {"inspect", "sleep", "append"} => i = batch_size * calls.append
        /\ pc = "append" =>
              /\ batch_rows = SubSeq(all_rows, i + 1, Min(i + batch_size, Len(all_urls)))
              /\ Len(batch_rows) \in 1..batch_size
              /\ Len(batch_rows) < batch_size => i + Len(batch_rows) = Len(all_urls)
        /\ pc \in {"export", "done"} =>
              /\ calls.append = (Len(all_urls) + batch_size - 1) \div batch_size
              /\ HeaderThenRowsOf(sheet.rows, all_urls)

\* 36 URLs went to the sheet in 8 appends, the last of a single row
C15_Witness ==
    /\ NoSinkFailure
    /\ outcome = "success_sheets"
    /\ Len(all_urls) = 36
    /\ calls.append = 8
    /\ Len(sheet.rows) = 37
    /\ Len(batch_rows) = 1

\* rows inspected so far that no append has carried to the sheet
Unsent == Len(all_rows) - (Len(sheet.rows) - 1)

\* C16 (bounded unsent rows): while the sink is Remote, before and after every
\* step of the run at most 5 inspected rows are not yet in the sheet, and they
\* are the rows of the batch in progress; and no step of the run, in either
\* mode, removes or changes a row the sheet already holds.
C16_BoundedUnsentRows ==
    [][/\ RemoteActive(csv_mode, spreadsheet_id) =>
             /\ Unsent \in 0..batch_size
             /\ pc \in {"inspect", "sleep", "append"} => Unsent = Len(batch_rows)
       /\ RemoteActive(csv_mode', spreadsheet_id') =>
             /\ Len(all_rows') - (Len(sheet'.rows) - 1) \in 0..batch_size
             /\ pc' \in {"export", "done"} /\ outcome' # "fatal" =>
                   Len(all_rows') = Len(sheet'.rows) - 1
       /\ sheet.exists =>
             /\ sheet'.exists
             /\ Len(sheet'.rows) >= Len(sheet.rows)
             /\ SubSeq(sheet'.rows, 1, Len(sheet.rows)) = sheet.rows]_vars

\* a full third batch is about to be sent, the first two being in the sheet
C16_Witness ==
    /\ pc = "append"
    /\ RemoteActive(csv_mode, spreadsheet_id)
    /\ Unsent = batch_size
    /\ Len(sheet.rows) = 1 + 2 * batch_size
    /\ sheet.rows[2 * batch_size + 1] = all_rows[2 * batch_size]

\* line 149: the entry's URL contains the domain and its permission is not the
\* most restricted one
Qualifies(e) ==
    Contains(e.siteUrl, Domain) /\ e.permissionLevel # "siteRestrictedUser"

RowsIn(content) ==
    /\ Len(content) >= Len(all_rows) + 1
    /\ \A k \in 1..Len(all_rows) : content[k + 1] = all_rows[k]

\* C18 (no silent data loss): from the start of the loop on, csv_mode false
\* goes with a spreadsheet id, so the test of line 223 never skips a batch in
\* Remote mode; a run that ends with "success" has a row for every URL, and
\* every one of them is in the sheet when it ends with csv_mode false (one
\* append per batch was made) and in the local file when it ends with
\* csv_mode true.
C18_NoSilentDataLoss ==
    /\ (LoopStarted /\ ~csv_mode) => spreadsheet_id # None /\ sheet.exists
    /\ outcome \in {"success_sheets", "success_csv"} =>
          /\ LoopStarted
          /\ Len(all_rows) = Len(all_urls)
          /\ \A k \in 1..Len(all_urls) : all_rows[k][2] = all_urls[k]
    /\ outcome = "success_sheets" =>
          /\ ~csv_mode
          /\ calls.append = (Len(all_urls) + batch_size - 1) \div batch_size
          /\ RowsIn(sheet.rows)
    /\ outcome = "success_csv" =>
          /\ csv_mode
          /\ csv_file.exists
          /\ RowsIn(csv_file.rows)

\* a run of 37 URLs, one of them with a failed inspection, ended in the sheet
C18_Witness ==
    /\ outcome = "success_sheets"
    /\ errors = 1
    /\ Len(all_urls) = 37
    /\ RowsIn(sheet.rows)
    /\ \E k \in 1..Len(all_rows) : sheet.rows[k + 1][3] = "ERROR"

\* C19 (remote sheet after failover): once the append of batch k has failed
\* (k = calls.append), the sheet is exactly the header followed by the rows of
\* batches 1..k-1; every later step of the run leaves the sheet and the number
\* of appends as they are and the run Local; and the local file the run then
\* writes starts with the very lines the sheet holds.
C19_RemoteFrameAfterFailover ==
    [][/\ AppendFailed' =>
             /\ calls'.append >= 1
             /\ sheet'.rows =
                    <<headers>> \o SubSeq(all_rows', 1, batch_size * (calls'.append - 1))
             /\ outcome' = "success_csv" =>
                    /\ Len(csv_file'.rows) >= Len(sheet'.rows)
                    /\ SubSeq(csv_file'.rows, 1, Len(sheet'.rows)) = sheet'.rows
       /\ AppendFailed =>
             /\ AppendFailed'
             /\ sheet' = sheet
             /\ calls'.append = calls.append
             /\ spreadsheet_id' = spreadsheet_id]_vars

\* seven batches are in the sheet, the append of the eighth (one row) failed,
\* and the file holds all 36 rows
C19_Witness ==
    /\ AppendFailed
    /\ calls.append = 8
    /\ Len(all_urls) = 36
    /\ Len(sheet.rows) = 36
    /\ outcome = "success_csv"
    /\ Len(csv_file.rows) = 37
    /\ SubSeq(csv_file.rows, 1, 36) = sheet.rows

\* main has returned
Returned == pc = "done" /\ outcome \in NormalReturns

\* C20 (termination and resource bounds): under every pattern of failures main
\* eventually returns, and at no point has it made more than len(urls)
\* inspection calls, more than ceil(len(urls)/5) row appends, or more than one
\* write of the local file.
C20_Termination ==
    /\ <>Returned
    /\ [](/\ calls.inspect <= Len(all_urls)
          /\ calls.append <= (Len(all_urls) + batch_size - 1) \div batch_size
          /\ file_writes <= 1
          /\ calls.list <= 1 /\ calls.create <= 1 /\ calls.header <= 1)

\* the run that uses up every bound: 37 inspections, one of them failing, 8
\* appends of which the last failed, and a file write that failed too
C20_Witness ==
    /\ Returned
    /\ outcome = "fatal"
    /\ errors = 1
    /\ calls.inspect = 37
    /\ calls.append = 8
    /\ file_writes = 1
    /\ csv_file = NoFile

====
